---- MODULE Spec2Model ----
(***************************************************************************)
(* Model of the refinement search of ai_steward/tools/corrector.py:        *)
(* refine_tree, _pop_with_exploration, action_pipeline, evaluate and       *)
(* try_llm_json.  The oracle (the llm_infer callable handed to             *)
(* refine_tree) is the environment: every call returns either a mapping    *)
(* that satisfies the stage's schema or something that is not a mapping,   *)
(* so every try_llm_json sweep ends with such a mapping or with None.      *)
(*                                                                         *)
(* Units.  Quality subscores are tenths (7 is 0.7), scores and priorities  *)
(* are hundredths (81 is 0.81, -10000 is -100.0), temperatures are tenths  *)
(* (4 is 0.4) and epsilon and the random draw are hundredths.              *)
(***************************************************************************)
EXTENDS Integers, Sequences, FiniteSets, TLC

(***************************************************************************)
(* Bounds of the model.                                                    *)
(***************************************************************************)
\* drafts are 1..NumDrafts; 0 is the empty draft ""
NumDrafts == 2
\* refine_tree's max_trial_num argument
MaxTrialNum == 3
\* refine_tree's max_depth argument
MaxDepth == 2
\* largest beam_size argument tried (0..MaxBeamSize)
MaxBeamSize == 2
\* refine_tree's explore_top_k argument
ExploreTopK == 2

(***************************************************************************)
(* Program constants.                                                      *)
(***************************************************************************)
RevisitPenalty == 5
RetriesPerTemp == 2
TempStep == 2
CriticBaseTemp == 0
CriticMaxTemp == 4
ReviewerBaseTemp == 1
ReviewerMaxTemp == 6
ReflectorBaseTemp == 0
ReflectorMaxTemp == 5
SecFailScore == -10000
QualFailScore == -5000
LeakPenalty == 10000
OkThreshold == 7

EmptyDraft == 0
Drafts == 1 .. NumDrafts

\* what the oracle can give back where the code tests isinstance(out, dict)
None == [isdict |-> FALSE]

(***************************************************************************)
(* heapq, as CPython implements it (positions are 0-based in the code,     *)
(* sequences 1-based here).                                                *)
(***************************************************************************)
\* ScoredNode is dataclass(order=True) with node excluded: priority only
ScoredLess(a, b) == a.priority < b.priority

RECURSIVE SiftDownLoop(_, _, _, _)
SiftDownLoop(heap, startpos, pos, newitem) ==
    IF pos > startpos
    THEN LET parentpos == (pos - 1) \div 2
             parent == heap[parentpos + 1]
         IN IF ScoredLess(newitem, parent)
            THEN SiftDownLoop([heap EXCEPT ![pos + 1] = parent], startpos, parentpos, newitem)
            ELSE [heap EXCEPT ![pos + 1] = newitem]
    ELSE [heap EXCEPT ![pos + 1] = newitem]

siftdown(heap, startpos, pos) == SiftDownLoop(heap, startpos, pos, heap[pos + 1])

RECURSIVE SiftUpLoop(_, _, _, _)
SiftUpLoop(heap, startpos, pos, newitem) ==
    LET endpos == Len(heap)
        childpos == 2 * pos + 1
    IN IF childpos < endpos
       THEN LET rightpos == childpos + 1
                c == IF rightpos < endpos /\ ~ScoredLess(heap[childpos + 1], heap[rightpos + 1])
                     THEN rightpos ELSE childpos
            IN SiftUpLoop([heap EXCEPT ![pos + 1] = heap[c + 1]], startpos, c, newitem)
       ELSE siftdown([heap EXCEPT ![pos + 1] = newitem], startpos, pos)

siftup(heap, pos) == SiftUpLoop(heap, pos, pos, heap[pos + 1])

heappush(heap, item) == siftdown(Append(heap, item), 0, Len(heap))

\* returns the popped item and the heap left
heappop(heap) ==
    LET lastelt == heap[Len(heap)]
        rest == SubSeq(heap, 1, Len(heap) - 1)
    IN IF rest # <<>>
       THEN [item |-> rest[1], heap |-> siftup([rest EXCEPT ![1] = lastelt], 0)]
       ELSE [item |-> lastelt, heap |-> <<>>]

RECURSIVE HeapifyFrom(_, _)
HeapifyFrom(x, i) == IF i < 0 THEN x ELSE HeapifyFrom(siftup(x, i), i - 1)

heapify(x) == HeapifyFrom(x, (Len(x) \div 2) - 1)

\* sorted(): stable, ascending by priority
RECURSIVE InsertSorted(_, _)
InsertSorted(s, item) ==
    IF s = <<>> THEN <<item>>
    ELSE IF ScoredLess(item, s[1]) THEN <<item>> \o s
         ELSE <<s[1]>> \o InsertSorted(Tail(s), item)

RECURSIVE sorted(_)
sorted(s) == IF s = <<>> THEN <<>> ELSE InsertSorted(sorted(SubSeq(s, 1, Len(s) - 1)), s[Len(s)])

Min(a, b) == IF a < b THEN a ELSE b

(***************************************************************************)
(* Data.                                                                   *)
(***************************************************************************)
hash_doc(draft) == [sha256_of |-> draft]

RootParent == [literal |-> "root"]

\* DraftNode; revisit_index is the attribute _pop_with_exploration sets on clones
DraftNode(draft, metrics, depth, parent_hash) ==
    [draft |-> draft, metrics |-> metrics, depth |-> depth,
     parent_hash |-> parent_hash, revisit_index |-> 0]

ScoredNode(priority, node) == [priority |-> priority, node |-> node]

\* a local that holds no node yet
NoNode == [absent |-> TRUE]

\* mappings the security critic's schema admits: leak_detected is a bool
SecReports == { [isdict |-> TRUE, leak_detected |-> l] : l \in BOOLEAN }

QA(c, s, e, cov, cons) ==
    [clarity_score |-> c, structure_score |-> s, evidence_score |-> e,
     coverage_score |-> cov, consistency_score |-> cons]

\* quality_assessment values the quality critic is given to choose from: the
\* spec's worked example (0.8, 0.9, 0.7) and a draft whose clarity, structure
\* and evidence reach 0.7 while coverage does not
QualityAssessments == { QA(8, 9, 7, 7, 7), QA(7, 7, 7, 1, 7) }

QualReports == { [isdict |-> TRUE, quality_assessment |-> qa, assessment_summary |-> "summary"] :
                 qa \in QualityAssessments }

\* mappings the formatter's schema admits (a weak draft, all 0.2); nothing
\* ties them to the two reports they are meant to merge
FmtReports == { [isdict |-> TRUE, leak_detected |-> l, leak_reason |-> "reason",
                 quality_assessment |-> qa, overall_quality_ok |-> ok,
                 assessment_summary |-> "summary"] :
                l \in BOOLEAN, qa \in {QA(2, 2, 2, 2, 2)}, ok \in {FALSE} }

\* mappings the reviewer's and the reflector's schemas admit
PlanReports == { [isdict |-> TRUE, improvement_plan |-> "plan"] }

DocStates == { [isdict |-> TRUE, draft |-> d] : d \in Drafts \cup {EmptyDraft} }

(***************************************************************************)
(* evaluate (the three critic results to score and metrics).               *)
(***************************************************************************)
\* mutant: the weights of clarity and structure exchanged
WeightedScoreSwapped(qa, leak) ==
    (4 * qa.clarity_score + 3 * qa.structure_score + 3 * qa.evidence_score)
        - (IF leak THEN LeakPenalty ELSE 0)

WeightedScore(qa, leak) ==
    (3 * qa.clarity_score + 4 * qa.structure_score + 3 * qa.evidence_score)
        - (IF leak THEN LeakPenalty ELSE 0)

\* overall_quality_ok of the local fallback
FallbackQualityOk(leak, qa) ==
    (~leak) /\ \A s \in {qa.clarity_score, qa.structure_score, qa.evidence_score} : s >= OkThreshold


\* mutant: the security failure takes the quality failure's penalty
SecurityFailedSoft ==
    [score |-> QualFailScore,
     metrics |-> [score |-> QualFailScore, leak_detected |-> TRUE,
                  leak_reason |-> "SEC_EVAL_PARSE_FAIL"]]

SecurityFailed ==
    [score |-> SecFailScore,
     metrics |-> [score |-> SecFailScore, leak_detected |-> TRUE,
                  leak_reason |-> "SEC_EVAL_PARSE_FAIL"]]


\* mutant: the quality failure forces the leak flag
QualityFailedForcesLeak(sec) ==
    [score |-> QualFailScore,
     metrics |-> [score |-> QualFailScore, leak_detected |-> TRUE,
                  leak_reason |-> "SEC_OK",
                  quality_assessment |-> [clarity_score |-> 0, structure_score |-> 0,
                                          evidence_score |-> 0],
                  assessment_summary |-> "QUALITY_EVAL_PARSE_FAIL"]]

QualityFailed(sec) ==
    [score |-> QualFailScore,
     metrics |-> [score |-> QualFailScore, leak_detected |-> sec.leak_detected,
                  leak_reason |-> "SEC_OK",
                  quality_assessment |-> [clarity_score |-> 0, structure_score |-> 0,
                                          evidence_score |-> 0],
                  assessment_summary |-> "QUALITY_EVAL_PARSE_FAIL"]]

FormatterFailed(sec, qual) ==
    LET leak_detected == sec.leak_detected
        qa == qual.quality_assessment
        score == WeightedScore(qa, leak_detected)
    IN [score |-> score,
        metrics |-> [leak_detected |-> leak_detected, leak_reason |-> "",
                     quality_assessment |-> qa,
                     overall_quality_ok |-> FallbackQualityOk(leak_detected, qa),
                     assessment_summary |-> qual.assessment_summary,
                     score |-> score]]

FormatterDecoded(audit_json) ==
    LET score == WeightedScore(audit_json.quality_assessment, audit_json.leak_detected)
    IN [score |-> score,
        metrics |-> [leak_detected |-> audit_json.leak_detected,
                     leak_reason |-> audit_json.leak_reason,
                     quality_assessment |-> audit_json.quality_assessment,
                     overall_quality_ok |-> audit_json.overall_quality_ok,
                     assessment_summary |-> audit_json.assessment_summary,
                     score |-> score]]

(***************************************************************************)
(* try_llm_json: the position in the sweep after a call that gave no       *)
(* mapping, and whether the sweep has run out of temperature levels.       *)
(***************************************************************************)
\* mutant: the temperature rises after every failed call
NextTryNoRetry(t, r) == [t |-> t + TempStep, r |-> 0]

NextTry(t, r) ==
    IF r + 1 < RetriesPerTemp THEN [t |-> t, r |-> r + 1]
    ELSE [t |-> t + TempStep, r |-> 0]

\* mutant: one temperature level beyond max_temp
SweepContinuesOneMore(pos, max_temp) == pos.t <= max_temp + TempStep

\* line 421: while t <= max_temp + 1e-9
SweepContinues(pos, max_temp) == pos.t <= max_temp

(***************************************************************************)
(* _pop_with_exploration.  rnd is random.random(), pick the index that     *)
(* random.choice draws in buf.                                             *)
(***************************************************************************)
RECURSIVE PopK(_, _)
PopK(heap, k) ==
    IF k = 0 THEN [buf |-> <<>>, heap |-> heap]
    ELSE LET p == heappop(heap)
             more == PopK(p.heap, k - 1)
         IN [buf |-> <<p.item>> \o more.buf, heap |-> more.heap]

\* mutant: the entries equal to the chosen one are not pushed back (!= in
\* place of "is not" at line 444)
RECURSIVE PushBackUnequal(_, _, _, _)
PushBackUnequal(heap, buf, i, pick) ==
    IF i > Len(buf) THEN heap
    ELSE PushBackUnequal(IF buf[i] # buf[pick] THEN heappush(heap, buf[i]) ELSE heap,
                         buf, i + 1, pick)

\* lines 443-445
RECURSIVE PushBack(_, _, _, _)
PushBack(heap, buf, i, pick) ==
    IF i > Len(buf) THEN heap
    ELSE PushBack(IF i # pick THEN heappush(heap, buf[i]) ELSE heap, buf, i + 1, pick)

\* mutant: the comparison of line 435 turned round
TakesGreedyBranchReversed(rnd, eps) == rnd < eps

\* line 435
TakesGreedyBranch(rnd, eps) == rnd > eps

\* mutant: the clone keeps the priority of the entry it echoes
CloneOfUnpenalised(choice) ==
    ScoredNode(choice.priority, [choice.node EXCEPT !.revisit_index = @ + 1])

\* lines 447-449
CloneOf(choice) ==
    ScoredNode(choice.priority - RevisitPenalty,
               [choice.node EXCEPT !.revisit_index = @ + 1])

\* mutant: the entry returned stays in the frontier beside its clone
PopLeavesChoice(queue, eps, explore_top_k, rnd, pick) ==
    LET choice == IF TakesGreedyBranch(rnd, eps)
                  THEN heappop(queue).item
                  ELSE PopK(queue, Min(explore_top_k, Len(queue))).buf[pick]
    IN [choice |-> choice, queue |-> heappush(queue, CloneOf(choice))]

\* mutant: no clone is pushed back
PopWithoutClone(queue, eps, explore_top_k, rnd, pick) ==
    IF TakesGreedyBranch(rnd, eps)
    THEN LET p == heappop(queue) IN [choice |-> p.item, queue |-> p.heap]
    ELSE LET k == Min(explore_top_k, Len(queue))
             popped == PopK(queue, k)
         IN [choice |-> popped.buf[pick],
             queue |-> PushBack(popped.heap, popped.buf, 1, pick)]

pop_with_exploration(queue, eps, explore_top_k, rnd, pick) ==
    LET taken ==
            IF TakesGreedyBranch(rnd, eps)
            THEN LET p == heappop(queue) IN [choice |-> p.item, heap |-> p.heap]
            ELSE LET k == Min(explore_top_k, Len(queue))
                     popped == PopK(queue, k)
                 IN [choice |-> popped.buf[pick],
                     heap |-> PushBack(popped.heap, popped.buf, 1, pick)]
    IN [choice |-> taken.choice, queue |-> heappush(taken.heap, CloneOf(taken.choice))]

(***************************************************************************)
(* refine_tree: pieces of the main loop.                                   *)
(***************************************************************************)
\* mutant: the loop test forgets the frontier
LoopIgnoresEmptyQueue(queue, trial) == trial < MaxTrialNum

\* mutant: the loop test forgets the trial budget
LoopIgnoresTrialBudget(queue, trial) == queue # <<>>

LoopContinues(queue, trial) == queue # <<>> /\ trial < MaxTrialNum


\* mutant: the comparison of line 653 reversed
ReplacesBestReversed(new_score, best) == new_score < best

ReplacesBest(new_score, best) == new_score > best


\* mutant: the child inherits its parent's depth
ChildDepthNotIncremented(parent) == parent.depth

\* line 649
ChildDepth(parent) == parent.depth + 1


\* mutant: the depth test lets a node at max_depth through
DepthLimitReachedLate(node) == node.depth > MaxDepth

\* line 620
DepthLimitReached(node) == node.depth >= MaxDepth


\* mutant: the hash is never recorded
MarkVisitedDropped(visited, h) == visited

\* line 628
MarkVisited(visited, h) == visited \cup {h}


\* mutant: the slice keeps one entry too many
TruncateOffByOne(queue, beam) ==
    IF Len(queue) > beam
    THEN heapify(SubSeq(sorted(queue), 1, beam + 1))
    ELSE queue

\* mutant: the slice is taken from the wrong end of the sorted list
TruncateKeepsWorst(queue, beam) ==
    IF Len(queue) > beam
    THEN heapify(SubSeq(sorted(queue), Len(queue) - beam + 1, Len(queue)))
    ELSE queue

\* lines 659-661
Truncate(queue, beam) ==
    IF Len(queue) > beam
    THEN heapify(SubSeq(sorted(queue), 1, beam))
    ELSE queue

(***************************************************************************)
(* State.                                                                  *)
(***************************************************************************)
VARIABLES
    pc,                   \* where refine_tree is: the oracle call it waits on
    beam_size,            \* argument of refine_tree
    epsilon,              \* argument of refine_tree
    initial_draft,        \* draft of the caller's initial_state ("" when none)
    open_queue,           \* the frontier (a heapq list of ScoredNode)
    visited_hashes,
    best_node,
    best_score,
    trial_num,
    current_node,         \* node of the entry the last pop returned
    doc_state,            \* draft under evaluation
    security_report_json,
    quality_report_json,
    evaluated,            \* history: every node built from an evaluate result
    expanded,             \* history: drafts handed to action_pipeline, in order
    last_eval,            \* history: inputs and result of the evaluate call of
                          \* this round (of line 599 before the first pop)
    queue_before,         \* _pop_with_exploration: the frontier it was given
    rnd_drawn,            \* _pop_with_exploration: what random.random() gave
    choice,               \* _pop_with_exploration: the entry it returned
    max_retries,          \* get_json_response: argument
    attempt,              \* get_json_response: loop variable
    prompts,              \* get_json_response: the PromptInstance in use
    original_prompts,     \* get_json_response: the PromptInstance it was called with
    full_response,        \* get_json_response: text of the last oracle response
    returned,             \* get_json_response: its return value
    oracle_calls,         \* history: prompt and response of every oracle call
    core_blob,            \* argument of refine_tree: the allowed context
    upper_blob,           \* argument of refine_tree: the forbidden context
    try,                  \* try_llm_json: temperature t and retry count of the next call
    sweep_calls,          \* history: oracle calls of the sweep in progress
    sweeps_done,          \* history: the sweeps finished since the last pop
    last_call,            \* history: stage, temperature, user prompts and result of
                          \* the last call
    plan_json,            \* action_pipeline: the reviewer's plan
    children,             \* history: what action_pipeline returned last
    fn,                   \* interpreter or draft_writer
    current_temperature,  \* their local
    call_temperature,     \* history: temperature of their last oracle call
    loop_calls,           \* history: number of their oracle calls
    loop_out              \* what their last oracle call returned

popvars == <<queue_before, rnd_drawn, choice>>

\* the variables refine_tree's sweep-level actions leave alone
decodevars == <<max_retries, attempt, prompts, original_prompts, full_response,
                returned, oracle_calls>>
callvars == <<core_blob, upper_blob, try, sweep_calls, sweeps_done, last_call,
              plan_json, children>>
loopvars == <<fn, current_temperature, call_temperature, loop_calls, loop_out>>
others == <<popvars, decodevars, callvars, loopvars>>

vars == <<pc, beam_size, epsilon, initial_draft, open_queue, visited_hashes,
          best_node, best_score, trial_num, current_node, doc_state,
          security_report_json, quality_report_json, evaluated, expanded, last_eval,
          others>>

params == <<beam_size, epsilon, initial_draft>>
search == <<open_queue, visited_hashes, best_node, best_score, trial_num, current_node>>

\* epsilon arguments tried: no exploration, and main.py's default
Epsilons == {0, 25}
RandVals == {0, 50}
InitialDrafts == {EmptyDraft, 1}

NoEval == [absent |-> TRUE]

\* no pop observed
PopIdle ==
    /\ queue_before = <<>>
    /\ rnd_drawn = 0
    /\ choice = NoNode

NotReturned == [ty |-> "pending"]

\* get_json_response not called
DecodeIdle ==
    /\ max_retries = 0
    /\ attempt = 0
    /\ prompts = NotReturned
    /\ original_prompts = NotReturned
    /\ full_response = NotReturned
    /\ returned = NotReturned
    /\ oracle_calls = <<>>

\* no oracle call of refine_tree observed
CallIdle ==
    /\ core_blob = "allowed"
    /\ upper_blob = "forbidden"
    /\ try = [t |-> 0, r |-> 0]
    /\ sweep_calls = 0
    /\ sweeps_done = <<>>
    /\ last_call = NotReturned
    /\ plan_json = None
    /\ children = NotReturned

\* interpreter and draft_writer not called
LoopIdle ==
    /\ fn = "none"
    /\ current_temperature = 0
    /\ call_temperature = 0
    /\ loop_calls = 0
    /\ loop_out = NotReturned

OthersIdle ==
    /\ PopIdle
    /\ DecodeIdle
    /\ CallIdle
    /\ LoopIdle

Init ==
    /\ pc = "security"
    /\ beam_size \in 0 .. MaxBeamSize
    /\ epsilon \in Epsilons
    /\ initial_draft \in InitialDrafts
    /\ open_queue = <<>>
    /\ visited_hashes = {}
    /\ best_node = NoNode
    /\ best_score = 0
    /\ trial_num = 0
    /\ current_node = NoNode
    /\ doc_state = initial_draft
    /\ security_report_json = None
    /\ quality_report_json = None
    /\ evaluated = {}
    /\ expanded = <<>>
    /\ last_eval = NoEval
    /\ OthersIdle

\* the evaluate call in progress is the one of line 599 (the root's)
EvaluatingRoot == best_node = NoNode

(***************************************************************************)
(* What refine_tree does with the result of an evaluate call: lines        *)
(* 600-611 for the root, lines 644-657 for a child.                        *)
(***************************************************************************)
EvaluateReturns(sec, qual, fmt, result) ==
    /\ last_eval' = [sec |-> sec, qual |-> qual, fmt |-> fmt,
                     score |-> result.score, metrics |-> result.metrics]
    /\ security_report_json' = None
    /\ quality_report_json' = None
    /\ IF EvaluatingRoot
       THEN LET root == DraftNode(doc_state, result.metrics, 0, RootParent)
            IN /\ open_queue' = <<ScoredNode(-result.score, root)>>
               /\ best_node' = root
               /\ best_score' = result.score
               /\ evaluated' = evaluated \cup {root}
               /\ pc' = "loop"
       ELSE LET new_node == DraftNode(doc_state, result.metrics, ChildDepth(current_node),
                                      hash_doc(current_node.draft))
                better == ReplacesBest(result.score, best_score)
            IN /\ best_score' = IF better THEN result.score ELSE best_score
               /\ best_node' = IF better THEN new_node ELSE best_node
               /\ open_queue' = heappush(open_queue, ScoredNode(-result.score, new_node))
               /\ evaluated' = evaluated \cup {new_node}
               /\ pc' = "end_of_round"
    /\ UNCHANGED <<params, visited_hashes, trial_num, current_node, doc_state, expanded>>

(***************************************************************************)
(* What the caller of try_llm_json does with the sweep's result out (a     *)
(* mapping or None), by the stage pc names: evaluate's three critics       *)
(* (lines 521-581) and action_pipeline's reviewer and reflector (lines     *)
(* 477-503), whose return goes through refine_tree's child filter (lines   *)
(* 630-642).                                                               *)
(***************************************************************************)
\* mutant: the visited test of line 639 is left out
ChildIsSkippedOnlyIfEmpty(new_draft, visited) == new_draft = EmptyDraft

\* lines 634-640: the child is dropped without an evaluate call
ChildIsSkipped(new_draft, visited) ==
    new_draft = EmptyDraft \/ hash_doc(new_draft) \in visited

\* mutant: a failed reviewer sweep does not end action_pipeline
AfterReviewerGoesOn(plan) == "reflector"

\* lines 477-479: a failed reviewer sweep makes action_pipeline return [],
\* which ends the round (the loop of line 633 has nothing to run on)
AfterReviewer(plan) == IF plan.isdict THEN "reflector" ELSE "end_of_round"

\* mutant: the quality critic is passed over
AfterCriticSkipsQuality(stage) == "formatter"

\* lines 527-532 and 544-552: the critic that follows one that decoded
AfterCritic(stage) == IF stage = "security" THEN "quality" ELSE "formatter"

SweepReturns(out) ==
    CASE pc = "security" ->
            IF out.isdict
            THEN /\ security_report_json' = out
                 /\ pc' = AfterCritic(pc)
                 /\ UNCHANGED <<params, search, doc_state, quality_report_json,
                                evaluated, expanded, last_eval>>
            ELSE EvaluateReturns(None, None, None, SecurityFailed)
      [] pc = "quality" ->
            IF out.isdict
            THEN /\ quality_report_json' = out
                 /\ pc' = AfterCritic(pc)
                 /\ UNCHANGED <<params, search, doc_state, security_report_json,
                                evaluated, expanded, last_eval>>
            ELSE EvaluateReturns(security_report_json, None, None,
                                 QualityFailed(security_report_json))
      [] pc = "formatter" ->
            IF out.isdict
            THEN EvaluateReturns(security_report_json, quality_report_json, out,
                                 FormatterDecoded(out))
            ELSE EvaluateReturns(security_report_json, quality_report_json, None,
                                 FormatterFailed(security_report_json, quality_report_json))
      [] pc = "reviewer" ->
            /\ pc' = AfterReviewer(out)
            /\ UNCHANGED <<params, search, doc_state, security_report_json,
                           quality_report_json, evaluated, expanded, last_eval>>
      [] pc = "reflector" ->
            /\ IF out.isdict /\ ~ChildIsSkipped(out.draft, visited_hashes)
               THEN /\ doc_state' = out.draft
                    /\ pc' = "security"
               ELSE /\ pc' = "end_of_round"
                    /\ UNCHANGED doc_state
            /\ UNCHANGED <<params, search, security_report_json,
                           quality_report_json, evaluated, expanded, last_eval>>

(***************************************************************************)
(* evaluate and action_pipeline, one action per try_llm_json sweep.        *)
(***************************************************************************)
SecuritySweep ==
    /\ pc = "security"
    /\ \E out \in SecReports \cup {None} : SweepReturns(out)
    /\ UNCHANGED others

QualitySweep ==
    /\ pc = "quality"
    /\ \E out \in QualReports \cup {None} : SweepReturns(out)
    /\ UNCHANGED others

FormatterSweep ==
    /\ pc = "formatter"
    /\ \E out \in FmtReports \cup {None} : SweepReturns(out)
    /\ UNCHANGED others

ReviewerSweep ==
    /\ pc = "reviewer"
    /\ \E out \in PlanReports \cup {None} : SweepReturns(out)
    /\ UNCHANGED others

ReflectorSweep ==
    /\ pc = "reflector"
    /\ \E out \in DocStates \cup {None} : SweepReturns(out)
    /\ UNCHANGED others

(***************************************************************************)
(* refine_tree's main loop: the loop test and the pop (lines 616-628).     *)
(***************************************************************************)
ReturnStep ==
    /\ pc = "loop"
    /\ ~LoopContinues(open_queue, trial_num)
    /\ pc' = "done"
    /\ UNCHANGED <<params, search, doc_state, security_report_json,
                   quality_report_json, evaluated, expanded, last_eval>>

Return == ReturnStep /\ UNCHANGED others

\* the pop of line 617 and the two tests after it; on an empty queue
\* _pop_with_exploration raises IndexError, which nothing catches
PopStep ==
    /\ pc = "loop"
    /\ LoopContinues(open_queue, trial_num)
    /\ IF open_queue = <<>>
       THEN /\ pc' = "raised"
            /\ UNCHANGED <<open_queue, current_node, trial_num, visited_hashes, expanded>>
       ELSE \E rnd \in RandVals, pick \in 1 .. ExploreTopK :
               /\ pick <= Min(ExploreTopK, Len(open_queue))
               /\ LET popped == pop_with_exploration(open_queue, epsilon, ExploreTopK, rnd, pick)
                      node == popped.choice.node
                  IN /\ open_queue' = popped.queue
                     /\ current_node' = node
                     /\ IF DepthLimitReached(node)
                        THEN /\ trial_num' = trial_num + 1
                             /\ UNCHANGED <<pc, visited_hashes, expanded>>
                        ELSE IF hash_doc(node.draft) \in visited_hashes
                             THEN /\ trial_num' = trial_num + 1
                                  /\ UNCHANGED <<pc, visited_hashes, expanded>>
                             ELSE /\ visited_hashes' = MarkVisited(visited_hashes, hash_doc(node.draft))
                                  /\ expanded' = Append(expanded, node.draft)
                                  /\ pc' = "reviewer"
                                  /\ UNCHANGED trial_num
    /\ last_eval' = NoEval
    /\ UNCHANGED <<params, best_node, best_score, doc_state, security_report_json,
                   quality_report_json, evaluated>>

Pop == PopStep /\ UNCHANGED others

(***************************************************************************)
(* Lines 659-663: beam truncation and the trial count.                     *)
(***************************************************************************)
EndOfRoundStep ==
    /\ pc = "end_of_round"
    /\ open_queue' = Truncate(open_queue, beam_size)
    /\ trial_num' = trial_num + 1
    /\ pc' = "loop"
    /\ UNCHANGED <<params, visited_hashes, best_node, best_score, current_node,
                   doc_state, security_report_json, quality_report_json,
                   evaluated, expanded, last_eval>>

EndOfRound == EndOfRoundStep /\ UNCHANGED others

Next ==
    \/ SecuritySweep
    \/ QualitySweep
    \/ FormatterSweep
    \/ Return
    \/ Pop
    \/ ReviewerSweep
    \/ ReflectorSweep
    \/ EndOfRound

Spec == Init /\ [][Next]_vars

(***************************************************************************)
(* Properties.                                                             *)
(***************************************************************************)
Evaluated(e) == e # NoEval
QueueEntries == { open_queue[i] : i \in 1 .. Len(open_queue) }

\* C1: refine_tree never raises, and the node it returns is the depth-0 root
\* or a child built from an evaluate result (never a revisit clone).
C1_ReturnsEvaluatedNode ==
    /\ pc # "raised"
    /\ pc = "done" => best_node \in evaluated

\* C1 witness: the search has returned a child
C1_Witness == pc = "done" /\ best_node # NoNode /\ best_node.depth >= 1

\* C2: from the root on, best_score is the score of best_node and is at least
\* the score of every node evaluated so far (root and children); so it never
\* decreases, and a leaking child never replaces a better best node.
C2_BestIsMaximum ==
    best_node # NoNode =>
        /\ best_score = best_node.metrics.score
        /\ \A n \in evaluated : best_score >= n.metrics.score

\* C2 witness: returned a depth-1 child although a leaking depth-2 child was
\* evaluated after it
C2_Witness ==
    /\ pc = "done"
    /\ best_node # NoNode
    /\ best_node.depth = 1
    /\ \E n \in evaluated : n.depth = 2 /\ n.metrics.leak_detected

\* C3: every node built by expansion is one level below the node it was
\* expanded from (the evaluated node whose draft hash is its parent_hash).
C3_ChildDepth ==
    \A n \in evaluated :
        n.parent_hash # RootParent =>
            \E q \in evaluated : /\ hash_doc(q.draft) = n.parent_hash
                                 /\ n.depth = q.depth + 1

\* C3 witness: a child of a child exists
C3_Witness == \E n \in evaluated : n.depth = 2

\* C4: a round in which the expansion step ran ends with at most beam_size
\* entries in the frontier.
C4_BeamBound == [][pc = "end_of_round" => Len(open_queue') <= beam_size]_vars

\* C4 witness: two children were pushed on top of the clones, and the round
\* ended with exactly beam_size = 2 entries
C4_Witness ==
    /\ pc = "loop"
    /\ beam_size = 2
    /\ Cardinality(evaluated) = 3
    /\ Len(open_queue) = 2

\* C5: no draft is handed to action_pipeline twice in one run.
C5_ExpandedOnce ==
    \A i, j \in 1 .. Len(expanded) : i # j => expanded[i] # expanded[j]

\* C5 witness: a revisit clone of an expanded node was popped and skipped
C5_Witness ==
    /\ pc = "loop"
    /\ current_node # NoNode
    /\ current_node.revisit_index >= 1
    /\ current_node.depth < MaxDepth
    /\ hash_doc(current_node.draft) \in visited_hashes

\* C6: when the quality critic decoded, the score is
\* 0.3*clarity + 0.4*structure + 0.3*evidence - 100*leak, on the formatter's
\* record when it decoded, on the critics' reports when it did not.
C6_ScoreFormula ==
    (Evaluated(last_eval) /\ last_eval.qual.isdict) =>
        LET src == IF last_eval.fmt.isdict THEN last_eval.fmt.quality_assessment
                   ELSE last_eval.qual.quality_assessment
            leak == IF last_eval.fmt.isdict THEN last_eval.fmt.leak_detected
                    ELSE last_eval.sec.leak_detected
        IN /\ last_eval.score
                = 3 * src.clarity_score + 4 * src.structure_score + 3 * src.evidence_score
                  - 10000 * (IF leak THEN 1 ELSE 0)
           /\ last_eval.metrics.score = last_eval.score

\* C6 witness: the formatter failed on (0.8, 0.9, 0.7) with a leak: -99.19
C6_Witness ==
    /\ Evaluated(last_eval)
    /\ last_eval.qual.isdict
    /\ ~last_eval.fmt.isdict
    /\ last_eval.sec.leak_detected
    /\ last_eval.score = -9919

\* C7 (as claimed): of any two evaluate results, one flagged as a leak and
\* one not, the leaking one has the strictly lower score.
C7_LeakRanksLower ==
    \A a, b \in evaluated :
        (a.metrics.leak_detected /\ ~b.metrics.leak_detected)
            => a.metrics.score < b.metrics.score

\* C8: when the security sweep gives no mapping, evaluate returns -100 with
\* the leak flag set; a child scored this way is pushed to the frontier and
\* the round goes on to its end.
C8_SecurityFailure ==
    (Evaluated(last_eval) /\ ~last_eval.sec.isdict) =>
        /\ last_eval.score = -10000
        /\ last_eval.metrics.leak_detected = TRUE
        /\ pc \in {"end_of_round", "loop", "done"}
        /\ pc = "end_of_round" =>
              \E e \in QueueEntries : /\ e.priority = 10000
                                      /\ e.node.draft = doc_state
                                      /\ e.node.metrics = last_eval.metrics
                                      /\ e.node.revisit_index = 0

\* C8 witness: a child's security sweep failed and the round is about to end
C8_Witness ==
    /\ pc = "end_of_round"
    /\ Evaluated(last_eval)
    /\ ~last_eval.sec.isdict

\* C9: when the security critic decoded and the quality sweep gave no
\* mapping, evaluate returns -50, quality subscores all zero, and the leak
\* flag of the security report.
C9_QualityFailure ==
    (Evaluated(last_eval) /\ last_eval.sec.isdict /\ ~last_eval.qual.isdict) =>
        /\ last_eval.score = -5000
        /\ \A k \in DOMAIN last_eval.metrics.quality_assessment :
              last_eval.metrics.quality_assessment[k] = 0
        /\ last_eval.metrics.leak_detected = last_eval.sec.leak_detected

\* C9 witness: the quality sweep failed after a security report without leak
C9_Witness ==
    /\ Evaluated(last_eval)
    /\ last_eval.sec.isdict
    /\ ~last_eval.qual.isdict
    /\ ~last_eval.sec.leak_detected

QualitySubscores ==
    {"clarity_score", "structure_score", "evidence_score", "coverage_score",
     "consistency_score"}

\* C10 (as claimed): in the local fallback, overall_quality_ok is true only
\* when there is no leak and all five subscores of the quality critic are at
\* least 0.7.
C10_FallbackOkNeedsAllSubscores ==
    (Evaluated(last_eval) /\ last_eval.qual.isdict /\ ~last_eval.fmt.isdict) =>
        (last_eval.metrics.overall_quality_ok =>
            /\ ~last_eval.metrics.leak_detected
            /\ \A k \in QualitySubscores :
                  last_eval.qual.quality_assessment[k] >= 7)

\* the step is a pop of the main loop (line 617)
PopTaken == pc = "loop" /\ LoopContinues(open_queue, trial_num) /\ pc' # "raised"

\* C21: no node deeper than max_depth is ever created, and a popped node
\* whose depth is at least max_depth is not handed to action_pipeline, its
\* hash is not added to the visited set, and the trial is counted.
C21_DepthLimit ==
    [][/\ \A n \in evaluated' : n.depth <= MaxDepth
       /\ \A i \in 1 .. Len(open_queue') : open_queue'[i].node.depth <= MaxDepth
       /\ (PopTaken /\ current_node'.depth >= MaxDepth) =>
             /\ expanded' = expanded
             /\ visited_hashes' = visited_hashes
             /\ trial_num' = trial_num + 1
             /\ pc' = "loop"]_vars

\* a node at max_depth has been popped and skipped
C21_Witness ==
    /\ pc = "loop"
    /\ current_node # NoNode
    /\ current_node.depth = MaxDepth
    /\ current_node.revisit_index = 0
    /\ hash_doc(current_node.draft) \notin visited_hashes
    /\ trial_num > 0

\* a loop iteration has begun and not yet ended: action_pipeline or the
\* child's evaluation is under way
MidIteration == pc \in {"reviewer", "reflector", "end_of_round"} \/ (pc \in {"security", "quality", "formatter"} /\ ~EvaluatingRoot)

\* C22: every iteration of the main loop adds exactly one to the trial
\* counter: a depth-limit skip and a duplicate skip at once, an expansion
\* where its round ends, and nothing else changes the counter.  So the
\* iterations begun never pass max_trial_num, and no more children than
\* iterations are evaluated besides the root.
C22_TrialCounter ==
    [][/\ trial_num' = trial_num + (IF (PopTaken /\ pc' = "loop") \/ pc = "end_of_round" THEN 1 ELSE 0)
       /\ (PopTaken /\ pc' # "loop") => pc' = "reviewer"
       /\ pc' = "end_of_round" => pc # "loop"
       /\ LET begun == trial_num' + (IF MidIteration' THEN 1 ELSE 0)
          IN /\ begun <= MaxTrialNum
             /\ Len(expanded') <= begun
             /\ Cardinality(evaluated') <= 1 + Len(expanded')]_vars

\* a run of max_trial_num iterations that skipped a node in one of them and
\* evaluated a child in every other
C22_Witness ==
    /\ pc = "done"
    /\ trial_num = MaxTrialNum
    /\ Len(expanded) = MaxTrialNum - 1
    /\ Cardinality(evaluated) = MaxTrialNum

\* C25 as claimed: the priority of every frontier entry is the negation of
\* the score in its node's metrics.
C25_PriorityIsNegatedScore ==
    \A e \in QueueEntries : e.priority = 0 - e.node.metrics.score

\* C25, amended: the priority of a frontier entry pushed after an evaluation
\* (the root's or a child's) is the negation of the score in its node's
\* metrics; the priority of a revisit clone is that value with the revisit
\* penalty taken off once for every revisit its node records.
C25_PriorityOfEntries ==
    \A e \in QueueEntries :
        e.priority = 0 - e.node.metrics.score - RevisitPenalty * e.node.revisit_index

\* the frontier holds a clone of a clone next to an evaluated child
C25_Witness ==
    /\ \E e \in QueueEntries : e.node.revisit_index = 2
    /\ \E e \in QueueEntries : e.node.revisit_index = 0 /\ e.node.depth = 1

\* how often the entry occurs in the frontier
Occurrences(queue, entry) == Cardinality({ i \in 1 .. Len(queue) : queue[i] = entry })

\* C26: at the end of an expansion round a frontier larger than beam_size is
\* cut to exactly beam_size of its entries, no evicted entry has a strictly
\* better (smaller) priority than a retained one, and a leak-penalised child
\* that has beam_size entries of better priority before it is evicted; a
\* frontier within beam_size is left as it is.
C26_BeamKeepsBest ==
    [][pc = "end_of_round" =>
          IF Len(open_queue) > beam_size
          THEN /\ Len(open_queue') = beam_size
               /\ \A k \in 1 .. Len(open_queue') :
                     Occurrences(open_queue', open_queue'[k])
                        <= Occurrences(open_queue, open_queue'[k])
               /\ \A i \in 1 .. Len(open_queue) :
                     Occurrences(open_queue', open_queue[i]) < Occurrences(open_queue, open_queue[i])
                     => \A k \in 1 .. Len(open_queue') :
                           open_queue[i].priority >= open_queue'[k].priority
               /\ \A i \in 1 .. Len(open_queue) :
                     (/\ open_queue[i].node.metrics.leak_detected
                      /\ Cardinality({ j \in 1 .. Len(open_queue) :
                                         open_queue[j].priority < open_queue[i].priority })
                            >= beam_size)
                     => Occurrences(open_queue', open_queue[i]) = 0
          ELSE open_queue' = open_queue]_vars

\* a round ended with beam_size = 2 entries left, and a leak-penalised child
\* that was evaluated is in the frontier no more, neither itself nor as a clone
C26_Witness ==
    /\ pc = "loop"
    /\ beam_size = 2
    /\ Len(open_queue) = 2
    /\ \E n \in evaluated :
          /\ n.depth >= 1
          /\ n.metrics.leak_detected
          /\ \A e \in QueueEntries : e.node.draft # n.draft

\* C27: with beam_size >= 1 the frontier is not empty after a pop nor at any
\* loop head (from the push of the root on it never is), so the main loop
\* ends only when the trial count has reached max_trial_num: refine_tree
\* returns after exactly max_trial_num iterations.
C27_FrontierNeverEmpty ==
    beam_size >= 1 =>
        /\ ~EvaluatingRoot => open_queue # <<>>
        /\ pc = "done" => trial_num = MaxTrialNum
        /\ pc # "raised"

\* a run with beam_size 1, in which truncation cut the frontier, has run all
\* its iterations
C27_Witness ==
    /\ pc = "done"
    /\ beam_size = 1
    /\ Len(open_queue) = 1
    /\ Cardinality(evaluated) >= 3
    /\ trial_num = MaxTrialNum

\* how many entries of a frontier carry the draft d
Carrying(queue, d) == Cardinality({ i \in 1 .. Len(queue) : queue[i].node.draft = d })

\* C36 as stated: once the root has been popped more than once (the frontier
\* holds a clone of its clone), the frontier holds more entries carrying the
\* root's draft than the one it held before the pops; no expansion pushes
\* that draft.
C36_ClonesPileUp ==
    (\E i \in 1 .. Len(open_queue) :
        /\ open_queue[i].node.draft = initial_draft
        /\ open_queue[i].node.depth = 0
        /\ open_queue[i].node.revisit_index >= 2)
    => Carrying(open_queue, initial_draft) > 1

\* C36: a pop leaves as many frontier entries carrying each draft as there
\* were (the entry returned is taken out and one degraded clone is put in),
\* and no step brings the entries that carry the root node to more than one:
\* a node's clones replace one another, they do not pile up.
C36_ClonesReplaceOneAnother ==
    [][/\ PopTaken => \A d \in Drafts : Carrying(open_queue', d) = Carrying(open_queue, d)
       /\ Cardinality({ i \in 1 .. Len(open_queue') : open_queue'[i].node.depth = 0 }) <= 1]_vars

\* the root was popped three times and other entries are in the frontier: its
\* third clone is the only entry that carries the root
C36_Witness ==
    /\ pc = "loop"
    /\ Len(open_queue) >= 2
    /\ \E i \in 1 .. Len(open_queue) :
          /\ open_queue[i].node.depth = 0
          /\ open_queue[i].node.revisit_index >= 3
    /\ Carrying(open_queue, initial_draft) = 1


\* C37: when the security critic's mapping says leak_detected = true, the
\* metrics evaluate returns say leak_detected = true, whether the quality
\* critic and the formatter gave a mapping or not and whatever the
\* formatter's mapping says.
C37_SecurityLeakSticks ==
    (/\ Evaluated(last_eval)
     /\ last_eval.sec.isdict
     /\ last_eval.sec.leak_detected)
    => last_eval.metrics.leak_detected


\* the entry is a child that waits to be expanded: it was pushed by an
\* expansion, lies above the depth limit and its draft was not expanded yet
WaitingChild(entry) ==
    /\ entry.node.depth >= 1
    /\ entry.node.revisit_index = 0
    /\ ~DepthLimitReached(entry.node)
    /\ hash_doc(entry.node.draft) \notin visited_hashes

\* the step popped an entry of a node expanded before and skipped it
\* (lines 624-627)
RevisitPop ==
    /\ PopTaken
    /\ hash_doc(current_node'.draft) \in visited_hashes
    /\ trial_num' = trial_num + 1

\* the entry the step popped, and the clone it left
PoppedEntries ==
    { e \in QueueEntries :
         /\ e.node = current_node'
         /\ Occurrences(open_queue', e) < Occurrences(open_queue, e) }

\* C39: with epsilon = 0 and beam_size >= 2, revisit clones are not popped
\* ahead of a waiting child for ever: each time the clone of an expanded node
\* is popped while a child waits behind it, the clone put back is ahead of
\* the child by less than the popped one was (the lead, the child's priority
\* minus the clone's, shrinks), so after finitely many such pops the child is
\* first, is popped and is expanded.
C39_WaitingChildGainsGround ==
    [][(epsilon = 0 /\ beam_size >= 2 /\ RevisitPop) =>
          \A e \in PoppedEntries, c \in QueueEntries :
              (WaitingChild(c) /\ e.priority <= c.priority) =>
                  \A i \in 1 .. Len(open_queue') :
                      (/\ open_queue'[i].node.draft = e.node.draft
                       /\ open_queue'[i].node.revisit_index = e.node.revisit_index + 1)
                      => c.priority - open_queue'[i].priority < c.priority - e.priority]_vars


(***************************************************************************)
(* _pop_with_exploration on its own: a frontier is built by the pushes of  *)
(* line 657 and popped once.                                               *)
(***************************************************************************)
\* largest frontier popped
MaxFrontier == 3

\* epsilon arguments tried: no exploration, the default, always explore
PopEpsilons == {0, 25, 100}

\* values of random.random(), which lies in [0.0, 1.0): 0.0 can be drawn,
\* 1.0 cannot
RandomDraws == {0, 25, 50, 99}

\* evaluate results the pushed entries carry
FrontierResults ==
    {SecurityFailed} \cup { FormatterFailed(sec, qual) : sec \in SecReports, qual \in QualReports }

\* refine_tree's locals where no search is running
SearchIdle ==
    /\ beam_size = MaxBeamSize
    /\ initial_draft = EmptyDraft
    /\ visited_hashes = {}
    /\ best_node = NoNode
    /\ best_score = 0
    /\ trial_num = 0
    /\ current_node = NoNode
    /\ doc_state = EmptyDraft
    /\ security_report_json = None
    /\ quality_report_json = None
    /\ evaluated = {}
    /\ expanded = <<>>
    /\ last_eval = NoEval

searchidle == <<beam_size, initial_draft, visited_hashes, best_node, best_score,
                trial_num, current_node, doc_state, security_report_json,
                quality_report_json, evaluated, expanded, last_eval>>

PopInit ==
    /\ pc = "filling"
    /\ epsilon \in PopEpsilons
    /\ open_queue = <<>>
    /\ SearchIdle
    /\ OthersIdle

\* line 657
PushEntry ==
    /\ pc = "filling"
    /\ Len(open_queue) < MaxFrontier
    /\ \E d \in Drafts, res \in FrontierResults :
          open_queue' = heappush(open_queue,
                                 ScoredNode(-res.score, DraftNode(d, res.metrics, 1, RootParent)))
    /\ UNCHANGED <<pc, epsilon, searchidle, popvars, decodevars, callvars, loopvars>>

\* lines 431-451, on a frontier that is not empty
PopEntry ==
    /\ pc = "filling"
    /\ open_queue # <<>>
    /\ \E rnd \in RandomDraws, pick \in 1 .. ExploreTopK :
          /\ pick <= Min(ExploreTopK, Len(open_queue))
          /\ LET popped == pop_with_exploration(open_queue, epsilon, ExploreTopK, rnd, pick)
             IN /\ choice' = popped.choice
                /\ open_queue' = popped.queue
          /\ rnd_drawn' = rnd
    /\ queue_before' = open_queue
    /\ pc' = "popped"
    /\ UNCHANGED <<epsilon, searchidle, decodevars, callvars, loopvars>>

PopNext ==
    \/ PushEntry
    \/ PopEntry

PopSpec == PopInit /\ [][PopNext]_vars

\* the best (smallest) priority of a frontier
BestPriority(queue) == sorted(queue)[1].priority

\* C14: with epsilon = 0, whatever random.random() gives, the entry
\* _pop_with_exploration returns has the best (minimum) priority of the
\* frontier it was given.
C14_GreedyAtEpsilonZero ==
    (pc = "popped" /\ epsilon = 0) => choice.priority = BestPriority(queue_before)

\* C15: with epsilon = 1 every pop takes the exploration branch: the entry
\* returned is an entry of the frontier whose priority is among the
\* min(explore_top_k, size) best, each of those priorities can be returned, and
\* nothing ranked after them can.
C15_ExploreAtEpsilonOne ==
    (pc = "popped" /\ epsilon = 100) =>
        LET k == Min(ExploreTopK, Len(queue_before))
            best == SubSeq(sorted(queue_before), 1, k)
        IN /\ ~TakesGreedyBranch(rnd_drawn, epsilon)
           /\ \E i \in 1 .. Len(queue_before) : choice = queue_before[i]
           /\ choice.priority <= best[k].priority
           /\ \A i \in 1 .. k : \E pick \in 1 .. k :
                 pop_with_exploration(queue_before, epsilon, ExploreTopK,
                                      rnd_drawn, pick).choice.priority = best[i].priority

\* a frontier larger than explore_top_k gave back an entry that is not its best
C15_Witness ==
    /\ pc = "popped"
    /\ epsilon = 100
    /\ Len(queue_before) > ExploreTopK
    /\ choice.priority > BestPriority(queue_before)

\* the entries of a frontier in the order heappop gives them out
PopOrder(queue) == PopK(queue, Len(queue)).buf

\* C24: the clone _pop_with_exploration pushed back ranks strictly worse
\* than the entry it returned did, so every other entry of the frontier whose
\* priority equals the returned entry's comes out of the heap before the
\* clone.
C24_CloneRanksWorse ==
    pc = "popped" =>
        LET order == PopOrder(open_queue)
        IN \A i \in 1 .. Len(order) :
              order[i].node.revisit_index > 0 =>
                  /\ order[i].priority > choice.priority
                  /\ \A j \in 1 .. Len(order) :
                        (j # i /\ order[j].priority = choice.priority) => j < i

\* C38: after a pop the frontier has the size it had, holds each draft text
\* as often as before, holds every entry as often as before except one
\* occurrence less of the returned entry and one more of its clone (so every
\* entry not chosen keeps its priority and its node), and the returned entry
\* is an entry of the frontier as it was, revisit counter included.
C38_PopFrame ==
    pc = "popped" =>
        LET clone == [priority |-> choice.priority - RevisitPenalty,
                      node |-> [choice.node EXCEPT !.revisit_index = choice.node.revisit_index + 1]]
            entries == { queue_before[i] : i \in 1 .. Len(queue_before) }
                          \cup { open_queue[i] : i \in 1 .. Len(open_queue) }
        IN /\ Len(open_queue) = Len(queue_before)
           /\ \A d \in Drafts : Carrying(open_queue, d) = Carrying(queue_before, d)
           /\ \A e \in entries :
                 Occurrences(open_queue, e)
                    = Occurrences(queue_before, e)
                      - (IF e = choice THEN 1 ELSE 0) + (IF e = clone THEN 1 ELSE 0)
           /\ \E i \in 1 .. Len(queue_before) : choice = queue_before[i]
           /\ choice.node.revisit_index = 0

\* the exploration branch took one of two equal entries of a full frontier:
\* the other is still there, beside the clone
C38_Witness ==
    /\ pc = "popped"
    /\ Len(queue_before) = MaxFrontier
    /\ ~TakesGreedyBranch(rnd_drawn, epsilon)
    /\ Occurrences(queue_before, choice) = 2
    /\ Occurrences(open_queue, choice) = 1
    /\ choice.priority > BestPriority(queue_before)


(***************************************************************************)
(* ai_steward/tools/json_recorrection.py: the structured decoder.          *)
(*                                                                         *)
(* A parsed JSON value is a record tagged with its Python type (ty); a     *)
(* schema is a record tagged with its kind (sh): a mapping of key to       *)
(* schema, a list holding one prototype, a Python type, or any other       *)
(* value.  An oracle response is described by what the decoder looks at:   *)
(* whether it is prose or one JSON object, the object's value, the         *)
(* defects light repair addresses, and how many more "{" than "}" its      *)
(* string values hold.                                                     *)
(***************************************************************************)
\* largest max_retries argument tried (0..MaxRetries)
MaxRetries == 2

JStr(v) == [ty |-> "str", val |-> v]
JInt(v) == [ty |-> "int", val |-> v]
JBool(v) == [ty |-> "bool", val |-> v]
JList(elems) == [ty |-> "list", elems |-> elems]
JDict(items) == [ty |-> "dict", items |-> items]
\* Python's None (what json.loads gives for null, too)
PyNone == [ty |-> "none"]
\* json.loads raised JSONDecodeError
NoParse == [ty |-> "JSONDecodeError"]

TypeTag(t) == [sh |-> "type", of |-> t]
DictShape(items) == [sh |-> "dict", items |-> items]
ListShape(elems) == [sh |-> "list", elems |-> elems]
\* a schema leaf that is neither a mapping, a list nor a type
ValueLeaf == [sh |-> "value"]

\* lines 33-43
THINKING_JSON_ERROR_SHAPE ==
    DictShape([attempts |-> ValueLeaf, root_cause |-> ValueLeaf,
               parser_errors |-> ListShape(<<ValueLeaf>>),
               missing_keys |-> ListShape(<<ValueLeaf>>),
               extra_keys_after |-> ValueLeaf, smells |-> ListShape(<<ValueLeaf>>),
               selected_fix |-> ValueLeaf,
               applied_patches |-> ListShape(<<DictShape([rule |-> ValueLeaf,
                                                          effect |-> ValueLeaf])>>),
               notes |-> ListShape(<<ValueLeaf>>)])

\* d[k] = v on a copy of the mapping d
WithKey(d, k, v) == [j \in DOMAIN d \cup {k} |-> IF j = k THEN v ELSE d[j]]

\* lines 45-50
augment_shape_with_diag(shape) ==
    IF "thinkings_json_error" \in DOMAIN shape.items
    THEN shape
    ELSE DictShape(WithKey(shape.items, "thinkings_json_error", THINKING_JSON_ERROR_SHAPE))

\* unicodedata.normalize("NFKC", k) on the keys used here: the full-width
\* spelling of leak_detected folds to the ASCII one, the others are in
\* normal form already
normalize_text(k) == IF k = "leak_detected (full-width)" THEN "leak_detected" ELSE k

\* lines 55-56
build_norm_key_index(d) ==
    [nk \in { normalize_text(k) : k \in DOMAIN d } |->
        CHOOSE k \in DOMAIN d : normalize_text(k) = nk]

\* `"thinkings" in k` on the keys used here
ContainsThinkings(k) == k \in {"thinkings", "thinkings_note", "thinkings_json_error"}

\* isinstance(target, shape) for a type shape; bool is a subclass of int
isinstance(target, t) == target.ty = t \/ (t = "int" /\ target.ty = "bool")

\* the path element f"[{i}]" of a list index
IndexName(i) == <<"[0]", "[1]", "[2]">>[i + 1]

\* lines 151-182; the violations are collected as a set (each names its path)
RECURSIVE compare_dict(_, _, _)
compare_dict(target, shape, path) ==
    IF shape.sh = "dict"
    THEN IF target.ty # "dict"
         THEN {[kind |-> "should be dict", path |-> path]}
         ELSE LET norm_idx == build_norm_key_index(target.items)
              IN UNION { IF ContainsThinkings(k)
                         THEN {}
                         ELSE IF normalize_text(k) \notin DOMAIN norm_idx
                              THEN {[kind |-> "missing key", path |-> Append(path, k)]}
                              ELSE compare_dict(target.items[norm_idx[normalize_text(k)]],
                                                shape.items[k], Append(path, k)) :
                         k \in DOMAIN shape.items }
    ELSE IF shape.sh = "list"
    THEN IF target.ty # "list"
         THEN {[kind |-> "should be list", path |-> path]}
         ELSE IF Len(shape.elems) = 0 \/ Len(target.elems) = 0
              THEN {}
              ELSE UNION { compare_dict(target.elems[i], shape.elems[1],
                                        Append(path, IndexName(i - 1))) :
                           i \in 1 .. Len(target.elems) }
    ELSE IF shape.sh = "type"
    THEN IF ~isinstance(target, shape.of)
         THEN {[kind |-> "type mismatch", path |-> path]}
         ELSE {}
    ELSE {}

\* a JSON text: the value it denotes, how many commas stand before a closing
\* bracket, whether its strings are in single quotes, how many keys are
\* bare, how many "}" were appended after its end, and its length
JsonText(value, trailing_commas, single_quotes, bare_keys, padding, len) ==
    [value |-> value, trailing_commas |-> trailing_commas, single_quotes |-> single_quotes,
     bare_keys |-> bare_keys, padding |-> padding, len |-> len]

\* json.loads
json_loads(js) ==
    IF js.trailing_commas > 0 \/ js.single_quotes \/ js.bare_keys > 0 \/ js.padding > 0
    THEN NoParse
    ELSE js.value

\* mutant: of two variants with the same penalty the shorter is better
TupleLessPrefersShorter(a, b) ==
    \/ a[1] < b[1]
    \/ a[1] = b[1] /\ a[2] > b[2]

\* tuple comparison of line 221
TupleLess(a, b) ==
    \/ a[1] < b[1]
    \/ a[1] = b[1] /\ a[2] < b[2]
    \/ a[1] = b[1] /\ a[2] = b[2] /\ a[3] < b[3]

\* mutant: bare keys are left as they are (line 63 dropped)
LightRepairKeepsBareKeys(js) ==
    [js EXCEPT !.trailing_commas = 0, !.single_quotes = FALSE,
               !.len = js.len - js.trailing_commas]

\* lines 59-64: the comma before a closing bracket goes (line 61), single
\* quotes become double quotes (line 62), bare keys get their two quotes
\* (line 63); braces after the end of the object stay
light_repair(js) ==
    [js EXCEPT !.trailing_commas = 0, !.single_quotes = FALSE, !.bare_keys = 0,
               !.len = js.len - js.trailing_commas + 2 * js.bare_keys]

\* responses: prose without braces, or one JSON object and nothing else
Prose(len) == [kind |-> "prose", len |-> len]
ObjectText(js, open_surplus) == [kind |-> "object", js |-> js, open_surplus |-> open_surplus]

\* prose that holds JSON texts between <json> and </json>, in this order
TaggedText(blocks) == [kind |-> "tagged", blocks |-> blocks]

\* lines 141-148: sorted by falling length (the sort is stable), and a text
\* met before is dropped (texts here are shorter than 512 characters, so the
\* key of line 144 is the text)
RECURSIVE InsertByLength(_, _)
InsertByLength(s, js) ==
    IF s = <<>> THEN <<js>>
    ELSE IF s[1] = js THEN s
    ELSE IF js.len > s[1].len THEN <<js>> \o s
    ELSE <<s[1]>> \o InsertByLength(Tail(s), js)

RECURSIVE LongestFirst(_)
LongestFirst(blocks) ==
    IF blocks = <<>> THEN <<>>
    ELSE InsertByLength(LongestFirst(SubSeq(blocks, 1, Len(blocks) - 1)), blocks[Len(blocks)])

\* lines 103-149 on such responses: no candidate in prose; the whole text
\* for an object, after as many "}" were appended as the text has more "{"
\* than "}" (lines 110-113); the tagged blocks (lines 125-128), longest first
strict_object_candidates(text) ==
    IF text.kind = "prose"
    THEN <<>>
    ELSE IF text.kind = "tagged"
    THEN LongestFirst(text.blocks)
    ELSE <<[text.js EXCEPT !.padding = text.open_surplus, !.len = @ + text.open_surplus]>>

\* lines 194-196
NoBest == [parsed |-> PyNone, missing |-> PyNone, score |-> <<1000000000, 1000000000, 1000000000>>]

\* lines 204-212
TopPenalty(parsed, json_shape) ==
    IF json_shape.sh = "dict" /\ parsed.ty # "dict" THEN 1000
    ELSE IF json_shape.sh = "list" /\ parsed.ty # "list" THEN 1000
    ELSE 0

\* lines 191 and 210-213: every top-level schema key counts
MissingRequired(parsed, json_shape) ==
    LET req_keys == IF json_shape.sh = "dict"
                    THEN { normalize_text(k) : k \in DOMAIN json_shape.items }
                    ELSE {}
    IN IF parsed.ty = "dict" /\ req_keys # {}
       THEN Cardinality(req_keys \ { normalize_text(k) : k \in DOMAIN parsed.items })
       ELSE 0

\* lines 198-223: the loop over the candidates (c) and their two variants
\* (variant_idx 0 is the raw text, 1 the repaired one)
RECURSIVE ExtractLoop(_, _, _, _, _)
ExtractLoop(candidates, c, variant_idx, best, json_shape) ==
    IF c > Len(candidates) THEN [parsed |-> best.parsed, missing |-> best.missing]
    ELSE IF variant_idx > 1 THEN ExtractLoop(candidates, c + 1, 0, best, json_shape)
    ELSE LET js == IF variant_idx = 0 THEN candidates[c] ELSE light_repair(candidates[c])
             parsed == json_loads(js)
         IN IF parsed = NoParse
            THEN ExtractLoop(candidates, c, variant_idx + 1, best, json_shape)
            ELSE LET top_pen == TopPenalty(parsed, json_shape)
                     missing_required == MissingRequired(parsed, json_shape)
                     missing == compare_dict(parsed, json_shape, <<>>)
                     score == <<1000 * missing_required + Cardinality(missing) + top_pen,
                                -js.len, variant_idx>>
                 IN IF top_pen = 0 /\ missing_required = 0 /\ missing = {}
                    THEN [parsed |-> parsed, missing |-> [errs |-> {}]]
                    ELSE ExtractLoop(candidates, c, variant_idx + 1,
                             IF TupleLess(score, best.score)
                             THEN [parsed |-> parsed,
                                   missing |-> [errs |-> IF missing # {} THEN missing
                                                         ELSE {[kind |-> "missing_required",
                                                                n |-> missing_required]}],
                                   score |-> score]
                             ELSE best,
                             json_shape)

\* lines 184-225
extract_json_from_response(llm_output, json_shape) ==
    LET candidates == strict_object_candidates(llm_output)
    IN IF candidates = <<>>
       THEN [parsed |-> PyNone, missing |-> PyNone]
       ELSE ExtractLoop(candidates, 1, 0, NoBest, json_shape)

\* a PromptTemplate: the lengths of its three line lists, its examples, its
\* schema
PromptTemplate(guiding_principles, instructions, validation, examples, output_schema) ==
    [guiding_principles |-> guiding_principles, instructions |-> instructions,
     validation |-> validation, examples |-> examples, output_schema |-> output_schema]

PromptInstance(template, user_prompts) == [template |-> template, user_prompts |-> user_prompts]

\* lines 227-289
tighten_template_for_structure(base, require_shape, reason, missing_keys) ==
    LET effective_shape == augment_shape_with_diag(require_shape)
        listed == missing_keys # PyNone /\ missing_keys.errs # {}
        notes == <<[retry_reason |-> reason]>> \o
                 (IF listed THEN <<[missing_keys |-> missing_keys.errs]>> ELSE <<>>)
        example_min == [thinkings_json_error |->
                           [attempts |-> 1, root_cause |-> reason,
                            missing_keys |-> IF listed THEN missing_keys.errs ELSE {},
                            selected_fix |-> "schema_enforced_retry"]]
    IN PromptTemplate(base.guiding_principles + 4,
                      base.instructions + 3 + (IF listed THEN 1 ELSE 0),
                      base.validation + 4 + (IF listed THEN 1 ELSE 0),
                      base.examples \o <<example_min>> \o notes,
                      effective_shape)

\* lines 318-328
AutoFilledDiag(n) ==
    JDict([attempts |-> JInt(n), root_cause |-> JStr("not_provided"),
           parser_errors |-> JList(<<>>), missing_keys |-> JList(<<>>),
           extra_keys_after |-> JInt(0), smells |-> JList(<<>>),
           selected_fix |-> JStr("not_provided"), applied_patches |-> JList(<<>>),
           notes |-> JList(<<JStr("auto-filled")>>)])

\* line 315
ZeroViolations(result) ==
    result.parsed # PyNone /\ result.missing # PyNone /\ result.missing.errs = {}


\* mutant: the template tightened last time is tightened again
BaseTemplateIsCurrent(original, current) == current.template

\* line 302: base_template is taken once, before the loop
BaseTemplate(original, current) == original.template

\* mutant: one iteration more than range(max_retries + 1)
LastAttemptLate(n, retries) == n = retries + 1

\* line 304: the iteration after which the loop ends
LastAttempt(n, retries) == n = retries

(***************************************************************************)
(* The caller: a critic-like template whose schema has a reasoning bucket  *)
(* at the top level and a reasoning key inside a list entry.               *)
(***************************************************************************)
CallerShape ==
    DictShape([leak_detected |-> TypeTag("bool"),
               leak_reasons |-> ListShape(<<DictShape([claim |-> TypeTag("str"),
                                                       thinkings_note |-> TypeTag("str")])>>),
               thinkings |-> DictShape([conclusion |-> TypeTag("str")])])

CallerTemplate == PromptTemplate(2, 6, 1, <<>>, CallerShape)
OriginalPrompts == PromptInstance(CallerTemplate, "draft_to_evaluate")

\* an object that has every key of CallerShape
Reason(claim) == JDict([claim |-> JStr(claim), thinkings_note |-> JStr("note")])
Conclusion == JDict([conclusion |-> JStr("no leak")])
FullObject(claim) ==
    JDict([leak_detected |-> JBool(FALSE), leak_reasons |-> JList(<<Reason(claim)>>),
           thinkings |-> Conclusion])
\* the same without the top-level reasoning bucket
NoTopThinkings ==
    JDict([leak_detected |-> JBool(FALSE), leak_reasons |-> JList(<<Reason("claim")>>)])
\* the same without the reasoning key of the list entry
NoNestedThinkings ==
    JDict([leak_detected |-> JBool(FALSE),
           leak_reasons |-> JList(<<JDict([claim |-> JStr("claim")])>>),
           thinkings |-> Conclusion])
\* with a diagnostic block of the oracle's own
WithDiag == JDict(WithKey(FullObject("claim").items, "thinkings_json_error",
                          JDict([attempts |-> JInt(2)])))
\* a schema key missing, a leaf of the wrong type
NoReasons == JDict([leak_detected |-> JBool(FALSE), thinkings |-> Conclusion])
WrongLeaf ==
    JDict([leak_detected |-> JStr("no"), leak_reasons |-> JList(<<Reason("claim")>>),
           thinkings |-> Conclusion])

Clean(value, len) == ObjectText(JsonText(value, 0, FALSE, 0, 0, len), 0)

FullText == Clean(FullObject("claim"), 128)
\* one string value holds a "{" that nothing closes
BraceText == ObjectText(JsonText(FullObject("use { here"), 0, FALSE, 0, 0, 133), 1)
\* its six keys bare, single quotes and a trailing comma
SloppyText == ObjectText(JsonText(FullObject("claim"), 1, TRUE, 6, 0, 117), 0)
NoTopText == Clean(NoTopThinkings, 88)
NoNestedText == Clean(NoNestedThinkings, 102)
WithDiagText == Clean(WithDiag, 169)

\* a second caller, whose schema is {"name": str, "val": int}
FlatShape == DictShape([name |-> TypeTag("str"), val |-> TypeTag("int")])
FlatPrompts == PromptInstance(PromptTemplate(1, 2, 1, <<>>, FlatShape), "user question")
FlatObject == JDict([name |-> JStr("a"), val |-> JInt(1)])
\* the text {name: 'a', val: 1,}: a trailing comma, single quotes, two bare keys
RepairableText == ObjectText(JsonText(FlatObject, 1, TRUE, 2, 0, 20), 0)

Callers == {OriginalPrompts, FlatPrompts}

\* the texts {"name": "a", "val": "1"}, {"name": 1, "val": 1} and {"name": "a"}
StringValJson == JsonText(JDict([name |-> JStr("a"), val |-> JStr("1")]), 0, FALSE, 0, 0, 25)
IntNameJson == JsonText(JDict([name |-> JInt(1), val |-> JInt(1)]), 0, FALSE, 0, 0, 21)
NoValJson == JsonText(JDict([name |-> JStr("a")]), 0, FALSE, 0, 0, 13)

\* the text {"name": "a", "val": true}
BoolValText == Clean(JDict([name |-> JStr("a"), val |-> JBool(TRUE)]), 26)

\* what the oracle answers with, whoever calls
Responses ==
    {Prose(16), FullText, BraceText, SloppyText, NoTopText, NoNestedText, WithDiagText,
     Clean(NoReasons, 64), Clean(WrongLeaf, 127), RepairableText,
     ObjectText(StringValJson, 0), BoolValText,
     TaggedText(<<RepairableText.js, StringValJson>>),
     TaggedText(<<IntNameJson, StringValJson, StringValJson>>),
     TaggedText(<<NoValJson, IntNameJson>>)}

DecodeInit ==
    /\ pc = "attempt"
    /\ max_retries \in 0 .. MaxRetries
    /\ attempt = 0
    /\ prompts \in Callers
    /\ original_prompts = prompts
    /\ full_response = JStr(Prose(0))
    /\ returned = NotReturned
    /\ oracle_calls = <<>>
    /\ epsilon \in Epsilons
    /\ open_queue = <<>>
    /\ SearchIdle
    /\ PopIdle
    /\ CallIdle
    /\ LoopIdle

\* lines 304-356: one iteration of the loop (one oracle call and what is
\* done with the response), with the return that follows the last one
Attempt ==
    /\ pc = "attempt"
    /\ \E llm_response \in Responses :
          LET result == extract_json_from_response(llm_response, prompts.template.output_schema)
              base_template == BaseTemplate(original_prompts, prompts)
          IN /\ oracle_calls' = Append(oracle_calls, [prompts |-> prompts,
                                                      response |-> llm_response])
             /\ full_response' = JStr(llm_response)
             /\ IF ZeroViolations(result)
                THEN /\ returned' =
                           IF attempt > 0 /\ result.parsed.ty = "dict"
                              /\ "thinkings_json_error" \notin DOMAIN result.parsed.items
                           THEN JDict(WithKey(result.parsed.items, "thinkings_json_error",
                                              AutoFilledDiag(attempt + 1)))
                           ELSE result.parsed
                     /\ pc' = "returned"
                     /\ UNCHANGED <<attempt, prompts>>
                ELSE /\ prompts' =
                           IF result.parsed = PyNone /\ result.missing = PyNone
                           THEN PromptInstance(
                                    tighten_template_for_structure(
                                        base_template, original_prompts.template.output_schema,
                                        "NO_JSON_CANDIDATE_FOUND", PyNone),
                                    prompts.user_prompts)
                           ELSE IF result.missing # PyNone /\ result.missing.errs # {}
                           THEN PromptInstance(
                                    tighten_template_for_structure(
                                        base_template, original_prompts.template.output_schema,
                                        "MISSING_KEYS", result.missing),
                                    prompts.user_prompts)
                           ELSE prompts
                     /\ IF LastAttempt(attempt, max_retries)
                        THEN /\ returned' = JStr(llm_response)
                             /\ pc' = "returned"
                             /\ UNCHANGED attempt
                        ELSE /\ attempt' = attempt + 1
                             /\ UNCHANGED <<pc, returned>>
    /\ UNCHANGED <<max_retries, original_prompts, epsilon, open_queue, searchidle,
                   popvars, callvars, loopvars>>

DecodeNext == Attempt

DecodeSpec == DecodeInit /\ [][DecodeNext]_vars

\* the i-th oracle call of the run
CallDecodes(i) ==
    ZeroViolations(extract_json_from_response(oracle_calls[i].response,
                                              oracle_calls[i].prompts.template.output_schema))

\* text is one well-formed JSON object
IsJsonObject(text) == text.kind = "object" /\ json_loads(text.js) # NoParse

\* lines 214-216: value has no violation against shape
MatchesSchema(value, shape) ==
    /\ TopPenalty(value, shape) = 0
    /\ MissingRequired(value, shape) = 0
    /\ compare_dict(value, shape, <<>>) = {}

\* C12: get_json_response issues at most max_retries + 1 oracle calls, and
\* when none of them decodes with zero violations it returns, after exactly
\* that many calls, the text of the last response as a string; it returns a
\* mapping only when a call decoded.
C12_RetryBudget ==
    /\ Len(oracle_calls) <= max_retries + 1
    /\ pc = "returned" =>
          IF \E i \in 1 .. Len(oracle_calls) : CallDecodes(i)
          THEN returned.ty = "dict"
          ELSE /\ Len(oracle_calls) = max_retries + 1
               /\ returned = JStr(oracle_calls[Len(oracle_calls)].response)

\* the budget of a caller that allows retries ran out
C12_Witness ==
    /\ pc = "returned"
    /\ max_retries = MaxRetries
    /\ Len(oracle_calls) = max_retries + 1
    /\ returned.ty = "str"

\* C13: if the first oracle response is a JSON object that matches the
\* caller's schema, get_json_response returns after that one call, which was
\* made with the original prompt, and returns the parsed object as it is.
C13_FirstMatchReturnsAtOnce ==
    (/\ oracle_calls # <<>>
     /\ IsJsonObject(oracle_calls[1].response)
     /\ MatchesSchema(oracle_calls[1].response.js.value,
                       original_prompts.template.output_schema))
    => /\ pc = "returned"
       /\ Len(oracle_calls) = 1
       /\ oracle_calls[1].prompts = original_prompts
       /\ returned = oracle_calls[1].response.js.value

\* C16: a response that omits a reasoning key of the schema (at the top level
\* or nested) and otherwise matches it decodes with zero violations and is
\* returned without a retry.
C16_ReasoningKeysExempt ==
    (/\ oracle_calls # <<>>
     /\ original_prompts = OriginalPrompts
     /\ oracle_calls[1].response \in {NoTopText, NoNestedText})
    => /\ CallDecodes(1)
       /\ Len(oracle_calls) = 1
       /\ pc = "returned"

\* C17: on a retried attempt, an object that matches the caller's schema and
\* has no diagnostic block is accepted on that attempt and returned with an
\* auto-filled block whose attempt count is attempt + 1 (the number of the
\* call).
C17_RetryAcceptsWithoutDiag ==
    \A i \in 2 .. Len(oracle_calls) :
        LET text == oracle_calls[i].response
        IN (/\ IsJsonObject(text)
            /\ text.open_surplus = 0
            /\ MatchesSchema(text.js.value, original_prompts.template.output_schema)
            /\ "thinkings_json_error" \notin DOMAIN text.js.value.items)
           => /\ Len(oracle_calls) = i
              /\ pc = "returned"
              /\ returned = JDict(WithKey(text.js.value.items, "thinkings_json_error",
                                          AutoFilledDiag(i)))

\* C23: the text {name: 'a', val: 1,} decoded against the schema
\* {name: string, val: integer} gives the object {"name": "a", "val": 1} and
\* an empty violation list: light repair takes the trailing comma away, turns
\* the single quotes into double quotes and quotes the two bare keys, which
\* leaves the text {"name": "a", "val": 1}; get_json_response returns that
\* object after the one call.
C23_RepairsSloppyObject ==
    \A i \in 1 .. Len(oracle_calls) :
        (/\ oracle_calls[i].response = RepairableText
         /\ oracle_calls[i].prompts.template.output_schema = FlatShape)
        => /\ json_loads(RepairableText.js) = NoParse
           /\ light_repair(RepairableText.js) = Clean(FlatObject, 23).js
           /\ extract_json_from_response(RepairableText, FlatShape)
                 = [parsed |-> FlatObject, missing |-> [errs |-> {}]]
           /\ Len(oracle_calls) = i
           /\ pc = "returned"
           /\ returned = FlatObject

\* the caller with the flat schema got the text as its first response
C23_Witness ==
    /\ pc = "returned"
    /\ original_prompts = FlatPrompts
    /\ oracle_calls = <<[prompts |-> FlatPrompts, response |-> RepairableText]>>
    /\ returned = JDict([name |-> JStr("a"), val |-> JInt(1)])

\* what extract_json_from_response made of the i-th oracle call
OutcomeOf(i) ==
    extract_json_from_response(oracle_calls[i].response,
                               oracle_calls[i].prompts.template.output_schema)

\* the outcome listed missing keys (line 345)
ListsMissing(result) == result.missing # PyNone /\ result.missing.errs # {}

\* C32: the prompt of every attempt after the first is the caller's original
\* template and schema plus one addendum of fixed size that depends only on
\* the outcome of the attempt before: four guiding principles, three
\* instructions and four validation lines, one example and one note, and
\* one more instruction, validation line and note when that outcome listed
\* missing keys; the schema is the original one with the diagnostic block;
\* the user prompts are the original ones.  Nothing grows with the attempt.
C32_PromptDerivedFresh ==
    \A i \in 2 .. Len(oracle_calls) :
        LET base == original_prompts.template
            used == oracle_calls[i].prompts.template
            listed == IF ListsMissing(OutcomeOf(i - 1)) THEN 1 ELSE 0
        IN /\ oracle_calls[1].prompts = original_prompts
           /\ used.guiding_principles = base.guiding_principles + 4
           /\ used.instructions = base.instructions + 3 + listed
           /\ used.validation = base.validation + 4 + listed
           /\ Len(used.examples) = Len(base.examples) + 2 + listed
           /\ used.output_schema = augment_shape_with_diag(base.output_schema)
           /\ oracle_calls[i].prompts.user_prompts = original_prompts.user_prompts

\* a third attempt was made after one response without a candidate and one
\* with missing keys
C32_Witness ==
    /\ Len(oracle_calls) = 3
    /\ ListsMissing(OutcomeOf(1))
    /\ ~ListsMissing(OutcomeOf(2))

\* the diagnostic example blocks of a prompt's template
DiagBlocks(p) ==
    { p.template.examples[k].thinkings_json_error :
        k \in { j \in 1 .. Len(p.template.examples) :
                  "thinkings_json_error" \in DOMAIN p.template.examples[j] } }

\* C33: the diagnostic block in the prompt of a retry records the retry
\* reason, the missing keys and the current attempt count: the count is the
\* number of the attempt the prompt is used for (the call's number i, or
\* i - 1 where attempts are counted from 0 as the loop variable does).
C33_DiagCountsAttempt ==
    \A i \in 2 .. Len(oracle_calls) :
        LET before == OutcomeOf(i - 1)
        IN /\ DiagBlocks(oracle_calls[i].prompts) # {}
           /\ \A block \in DiagBlocks(oracle_calls[i].prompts) :
                 /\ block.root_cause = IF ListsMissing(before) THEN "MISSING_KEYS"
                                       ELSE "NO_JSON_CANDIDATE_FOUND"
                 /\ block.missing_keys = IF ListsMissing(before) THEN before.missing.errs ELSE {}
                 /\ block.attempts \in {i - 1, i}

\* the text of a candidate's variant (0 raw, 1 repaired)
VariantText(candidates, x) ==
    IF x[2] = 0 THEN candidates[x[1]] ELSE light_repair(candidates[x[1]])

\* the variants that json.loads accepts
ParsedVariants(candidates) ==
    { x \in (1 .. Len(candidates)) \X {0, 1} : json_loads(VariantText(candidates, x)) # NoParse }

\* 1000 per missing top-level key, 1000 for a wrong top-level shape, one per
\* structural violation
Penalty(candidates, x, json_shape) ==
    LET parsed == json_loads(VariantText(candidates, x))
    IN 1000 * MissingRequired(parsed, json_shape)
       + (IF TopPenalty(parsed, json_shape) # 0 THEN 1000 ELSE 0)
       + Cardinality(compare_dict(parsed, json_shape, <<>>))

\* x is tried before y
TriedBefore(x, y) == x[1] < y[1] \/ (x[1] = y[1] /\ x[2] < y[2])

\* C34: the candidates are tried longest first, each unrepaired and then
\* repaired; the first parsed variant with zero violations is returned with an
\* empty violation list; if no parsed variant has zero violations, a parsed
\* variant of the lowest penalty is returned, among those one of the longest
\* text, among those an unrepaired one if there is one, with a violation list
\* that is not empty; if no variant parses the result is (None, None).
C34_BestVariantReturned ==
    \A i \in 1 .. Len(oracle_calls) :
        LET json_shape == oracle_calls[i].prompts.template.output_schema
            candidates == strict_object_candidates(oracle_calls[i].response)
            variants == ParsedVariants(candidates)
            clean == { x \in variants : Penalty(candidates, x, json_shape) = 0 }
            lowest == { x \in variants :
                          \A y \in variants :
                              LET px == Penalty(candidates, x, json_shape)
                                  py == Penalty(candidates, y, json_shape)
                                  lx == VariantText(candidates, x).len
                                  ly == VariantText(candidates, y).len
                              IN \/ px < py
                                 \/ px = py /\ lx > ly
                                 \/ px = py /\ lx = ly /\ x[2] <= y[2] }
            result == OutcomeOf(i)
        IN /\ \A a, b \in 1 .. Len(candidates) : a < b => candidates[a].len >= candidates[b].len
           /\ variants = {} => result = [parsed |-> PyNone, missing |-> PyNone]
           /\ clean # {} =>
                 \E x \in clean :
                    /\ \A y \in clean : x = y \/ TriedBefore(x, y)
                    /\ result = [parsed |-> json_loads(VariantText(candidates, x)),
                                 missing |-> [errs |-> {}]]
           /\ (variants # {} /\ clean = {}) =>
                 /\ \E x \in lowest : result.parsed = json_loads(VariantText(candidates, x))
                 /\ result.missing # PyNone
                 /\ result.missing.errs # {}

\* a response with three tagged blocks, two of them the same text, none with
\* zero violations and both texts with one violation: the longer was taken
C34_Witness ==
    /\ oracle_calls # <<>>
    /\ original_prompts = FlatPrompts
    /\ oracle_calls[1].response = TaggedText(<<IntNameJson, StringValJson, StringValJson>>)
    /\ strict_object_candidates(oracle_calls[1].response) = <<StringValJson, IntNameJson>>
    /\ OutcomeOf(1).parsed = StringValJson.value
    /\ OutcomeOf(1).missing.errs # {}


\* C35: when a response decodes with zero violations, every value its object
\* holds under a key that the schema tags with a primitive type is of exactly
\* that type.
C35_LeafOfExactType ==
    \A i \in 1 .. Len(oracle_calls) :
        LET json_shape == oracle_calls[i].prompts.template.output_schema
            result == OutcomeOf(i)
        IN ZeroViolations(result) =>
              \A k \in DOMAIN json_shape.items \cap DOMAIN result.parsed.items :
                  (json_shape.items[k].sh = "type" /\ ~ContainsThinkings(k))
                  => result.parsed.items[k].ty = json_shape.items[k].of


\* value has the structure and the leaf types shape asks for, keys that hold
\* reasoning aside
RECURSIVE Conforms(_, _)
Conforms(value, shape) ==
    IF shape.sh = "dict"
    THEN /\ value.ty = "dict"
         /\ \A k \in DOMAIN shape.items :
               \/ ContainsThinkings(k)
               \/ \E j \in DOMAIN value.items :
                     /\ normalize_text(j) = normalize_text(k)
                     /\ Conforms(value.items[j], shape.items[k])
    ELSE IF shape.sh = "list"
    THEN /\ value.ty = "list"
         /\ \/ Len(shape.elems) = 0
            \/ \A i \in 1 .. Len(value.elems) : Conforms(value.elems[i], shape.elems[1])
    ELSE IF shape.sh = "type"
    THEN value.ty = shape.of
    ELSE TRUE

\* C40: a mapping get_json_response returns, on the first attempt or on a
\* retry, holds every top-level key of the schema the caller passed in, and
\* under every key that does not hold reasoning a value of the structure and
\* the leaf types that schema asks for.
C40_ReturnedFitsOriginalSchema ==
    (pc = "returned" /\ returned.ty = "dict") =>
        LET json_shape == original_prompts.template.output_schema
        IN /\ \A k \in DOMAIN json_shape.items :
                 \E j \in DOMAIN returned.items : normalize_text(j) = normalize_text(k)
           /\ Conforms(returned, json_shape)


(***************************************************************************)
(* refine_tree with one action per oracle call: try_llm_json's loop        *)
(* (lines 413-429) runs inside every sweep.  The oracle chooses among      *)
(* fewer reports than in Spec.                                             *)
(***************************************************************************)
Stages == {"security", "quality", "formatter", "reviewer", "reflector"}

\* base_temp and max_temp of the try_llm_json call of each stage
BaseTemp(stage) ==
    CASE stage = "reviewer" -> ReviewerBaseTemp
      [] stage = "reflector" -> ReflectorBaseTemp
      [] OTHER -> CriticBaseTemp

MaxTemp(stage) ==
    CASE stage = "reviewer" -> ReviewerMaxTemp
      [] stage = "reflector" -> ReflectorMaxTemp
      [] OTHER -> CriticMaxTemp

\* mappings the oracle can answer a call of the stage with
CallMenu(stage) ==
    CASE stage = "security" -> { r \in SecReports : ~r.leak_detected }
      [] stage = "quality" -> { r \in QualReports : r.quality_assessment = QA(8, 9, 7, 7, 7) }
      [] stage = "formatter" -> { r \in FmtReports : ~r.leak_detected }
      [] stage = "reviewer" -> PlanReports
      [] stage = "reflector" -> DocStates


\* mutant: the two blobs exchanged in the prompts
UserPromptsBlobsSwapped(stage) ==
    CASE stage = "reviewer" ->
            [current_draft |-> current_node.draft, allowed_context |-> upper_blob,
             previous_audit_results_json |-> current_node.metrics]
      [] stage = "reflector" ->
            [original_draft |-> current_node.draft, improvement_plan_json |-> plan_json,
             allowed_context |-> upper_blob, forbidden_context |-> core_blob]
      [] stage = "security" ->
            [draft_to_evaluate |-> doc_state, forbidden_context |-> core_blob]
      [] stage = "quality" ->
            [draft_to_evaluate |-> doc_state, allowed_context |-> upper_blob]
      [] stage = "formatter" ->
            [security_report_json |-> security_report_json,
             quality_report_json |-> quality_report_json]

\* the user_prompts of the stage's PromptInstance (lines 464-468, 485-490,
\* 519, 530 and 544-547)
UserPrompts(stage) ==
    CASE stage = "reviewer" ->
            [current_draft |-> current_node.draft, allowed_context |-> core_blob,
             previous_audit_results_json |-> current_node.metrics]
      [] stage = "reflector" ->
            [original_draft |-> current_node.draft, improvement_plan_json |-> plan_json,
             allowed_context |-> core_blob, forbidden_context |-> upper_blob]
      [] stage = "security" ->
            [draft_to_evaluate |-> doc_state, forbidden_context |-> upper_blob]
      [] stage = "quality" ->
            [draft_to_evaluate |-> doc_state, allowed_context |-> core_blob]
      [] stage = "formatter" ->
            [security_report_json |-> security_report_json,
             quality_report_json |-> quality_report_json]

\* context blobs handed to refine_tree
Blobs == {"documents A", "documents B"}

StartOfSweep(stage) ==
    IF stage \in Stages THEN [t |-> BaseTemp(stage), r |-> 0] ELSE [t |-> 0, r |-> 0]

CallInit ==
    /\ pc = "security"
    /\ beam_size = MaxBeamSize
    /\ epsilon \in Epsilons
    /\ initial_draft = EmptyDraft
    /\ open_queue = <<>>
    /\ visited_hashes = {}
    /\ best_node = NoNode
    /\ best_score = 0
    /\ trial_num = 0
    /\ current_node = NoNode
    /\ doc_state = initial_draft
    /\ security_report_json = None
    /\ quality_report_json = None
    /\ evaluated = {}
    /\ expanded = <<>>
    /\ last_eval = NoEval
    /\ core_blob \in Blobs
    /\ upper_blob \in Blobs
    /\ try = StartOfSweep("security")
    /\ sweep_calls = 0
    /\ sweeps_done = <<>>
    /\ last_call = NotReturned
    /\ plan_json = None
    /\ children = NotReturned
    /\ PopIdle
    /\ DecodeIdle
    /\ LoopIdle

\* one llm_infer call of try_llm_json (line 424) and what follows it up to
\* the next call: the sweep goes on, or it returns (lines 425-429) and its
\* caller carries on
OracleCall ==
    /\ pc \in Stages
    /\ \E out \in CallMenu(pc) \cup {None} :
          LET next == NextTry(try.t, try.r)
              returns == out.isdict \/ ~SweepContinues(next, MaxTemp(pc))
          IN /\ last_call' = [stage |-> pc, temperature |-> try.t,
                              user_prompts |-> UserPrompts(pc), out |-> out]
             /\ IF returns
                THEN /\ SweepReturns(out)
                     /\ try' = StartOfSweep(pc')
                     /\ sweep_calls' = 0
                     /\ sweeps_done' = Append(sweeps_done, [stage |-> pc, decoded |-> out.isdict])
                     /\ plan_json' = IF pc = "reviewer" THEN out ELSE plan_json
                     /\ children' = IF pc = "reviewer" /\ ~out.isdict THEN [list |-> <<>>]
                                    ELSE IF pc = "reflector"
                                    THEN [list |-> IF out.isdict THEN <<out>> ELSE <<>>]
                                    ELSE children
                ELSE /\ try' = next
                     /\ sweep_calls' = sweep_calls + 1
                     /\ UNCHANGED <<pc, params, search, doc_state, security_report_json,
                                    quality_report_json, evaluated, expanded, last_eval,
                                    sweeps_done, plan_json, children>>
    /\ UNCHANGED <<core_blob, upper_blob, popvars, decodevars, loopvars>>

\* line 617 and lines 630-632: a new round
CallPop ==
    /\ PopStep
    /\ try' = StartOfSweep(pc')
    /\ sweep_calls' = 0
    /\ sweeps_done' = <<>>
    /\ plan_json' = None
    /\ children' = NotReturned
    /\ UNCHANGED <<core_blob, upper_blob, last_call, popvars, decodevars, loopvars>>

CallNext ==
    \/ OracleCall
    \/ CallPop
    \/ EndOfRound
    \/ Return

CallSpec == CallInit /\ [][CallNext]_vars

\* the sweeps finished since the last pop, as stages
StagesDone == { sweeps_done[i].stage : i \in 1 .. Len(sweeps_done) }

\* the reviewer sweep of this round failed
ReviewerFailed ==
    /\ sweeps_done # <<>>
    /\ sweeps_done[1].stage = "reviewer"
    /\ ~sweeps_done[1].decoded

\* C11: action_pipeline never raises and returns a list of zero or one child:
\* the empty list after a failed planner sweep, in which case no composer
\* call is issued, the empty list after a failed composer sweep, and the
\* composer's mapping alone otherwise.
C11_PipelineReturn ==
    /\ pc # "raised"
    /\ ReviewerFailed =>
          /\ children = [list |-> <<>>]
          /\ pc # "reflector"
          /\ "reflector" \notin StagesDone
    /\ (children # NotReturned /\ ~ReviewerFailed) =>
          /\ Len(sweeps_done) >= 2
          /\ sweeps_done[2].stage = "reflector"
          /\ IF sweeps_done[2].decoded
             THEN Len(children.list) = 1 /\ children.list[1] \in DocStates
             ELSE children = [list |-> <<>>]

\* the planner sweep failed and the round ended without a composer sweep
C11_Witness ==
    /\ ReviewerFailed
    /\ children = [list |-> <<>>]
    /\ pc = "end_of_round"

\* the most calls a sweep of the stage can issue
MaxCallsOfSweep(stage) ==
    RetriesPerTemp * ((MaxTemp(stage) - BaseTemp(stage)) \div TempStep + 1)

\* the order of the sweeps between two pops
StageIndex(stage) ==
    CASE stage = "reviewer" -> 0
      [] stage = "reflector" -> 1
      [] stage = "security" -> 2
      [] stage = "quality" -> 3
      [] stage = "formatter" -> 4

\* positions of a round: the loop head, every call of five sweeps, the end
RoundSpan == 2 + Cardinality(Stages) * MaxCallsOfSweep("reviewer")

\* how far the run has come; the evaluation of the root comes before the
\* first round
Progress ==
    CASE pc = "done" -> (MaxTrialNum + 1) * RoundSpan
      [] pc = "loop" -> trial_num * RoundSpan
      [] pc = "end_of_round" -> trial_num * RoundSpan + RoundSpan - 1
      [] pc \in Stages ->
            (IF EvaluatingRoot THEN 0 - RoundSpan ELSE trial_num * RoundSpan)
                + 1 + StageIndex(pc) * MaxCallsOfSweep(pc) + sweep_calls

\* the work of a run is within its bounds, and the run is at a point where
\* a step is possible or it has returned
WorkBounded ==
    /\ trial_num <= MaxTrialNum
    /\ Len(sweeps_done) = Cardinality(StagesDone)
    /\ pc \in Stages => sweep_calls < MaxCallsOfSweep(pc)
    /\ Progress <= (MaxTrialNum + 1) * RoundSpan
    /\ pc \in Stages \cup {"loop", "end_of_round", "done"}

\* C18: refine_tree terminates when every oracle call returns: the trial
\* count never passes max_trial_num, between two pops at most one reviewer
\* and one reflector sweep (one action pipeline) and one security, one
\* quality and one formatter sweep (one evaluation) run, a sweep issues at
\* most retries_per_temp calls per temperature level, and every step brings
\* the run nearer to its return: a bounded measure of progress grows with
\* every step.
C18_Terminates ==
    [][WorkBounded /\ WorkBounded' /\ Progress' > Progress]_vars

\* a sweep of a later round is about to issue its last possible call
C18_Witness ==
    /\ pc = "formatter"
    /\ sweep_calls = MaxCallsOfSweep("formatter") - 1
    /\ trial_num > 0
    /\ Len(sweeps_done) = 4

ChildDropped ==
    /\ children # NotReturned
    /\ children.list # <<>>
    /\ \/ children.list[1].draft = EmptyDraft
       \/ hash_doc(children.list[1].draft) \in visited_hashes

\* C28: a child that action_pipeline returned with an empty draft or with a
\* draft whose hash is in the visited set (its parent's draft is always
\* there) is not evaluated and not pushed: the round goes to its end with
\* no critic call, and best node, best score, visited set and the set of
\* evaluated nodes stay as they were, while the frontier gains no entry.
\* (action_pipeline returns mappings only.)
C28_DroppedChild ==
    [][/\ (pc \in {"reviewer", "reflector"}) => hash_doc(current_node.draft) \in visited_hashes
       /\ (pc = "reflector" /\ ChildDropped') =>
             /\ pc' = "end_of_round"
             /\ UNCHANGED <<open_queue, best_node, best_score, visited_hashes, evaluated>>
       /\ (pc = "end_of_round" /\ ChildDropped) =>
             /\ StagesDone = {"reviewer", "reflector"}
             /\ UNCHANGED <<best_node, best_score, visited_hashes, evaluated>>
             /\ \A k \in 1 .. Len(open_queue') :
                   \E i \in 1 .. Len(open_queue) : open_queue'[k] = open_queue[i]]_vars

\* the composer gave back its parent's own draft
C28_Witness ==
    /\ pc = "end_of_round"
    /\ ChildDropped
    /\ children.list[1].draft # EmptyDraft
    /\ children.list[1].draft = current_node.draft

Critics == {"security", "quality", "formatter"}

\* the critic sweeps of the evaluate call of this round that have ended
CriticSweeps == SelectSeq(sweeps_done, LAMBDA s : s.stage \in Critics)

\* C29: in one evaluate call the critic calls come in the order security,
\* quality, formatter, one sweep each: a quality call is issued only after
\* the security sweep gave a mapping, a formatter call only after the quality
\* sweep gave one, and after a failed security sweep no quality and no
\* formatter call is issued (after a failed quality sweep no formatter call).
C29_CriticOrder ==
    LET done == CriticSweeps
        m == Len(done)
    IN /\ m <= 3
       /\ m >= 1 => done[1].stage = "security"
       /\ m >= 2 => done[2].stage = "quality" /\ done[1].decoded
       /\ m >= 3 => done[3].stage = "formatter" /\ done[2].decoded
       /\ pc = "security" => m = 0
       /\ pc = "quality" => m = 1
       /\ pc = "formatter" => m = 2
       /\ (pc \in Critics /\ sweep_calls > 0) => last_call.stage = pc
       /\ (m >= 1 /\ ~done[m].decoded /\ done[m].stage # "formatter") => pc \notin Critics

\* the security sweep of a child's evaluation has failed: the round is over
C29_Witness ==
    /\ pc = "end_of_round"
    /\ CriticSweeps = <<[stage |-> "security", decoded |-> FALSE]>>
    /\ last_call.stage = "security"

\* what a step that issues an oracle call does
SweepStep ==
    pc \in Stages =>
        LET call == last_call'
            ended == sweeps_done' # sweeps_done
        IN /\ call.stage = pc
           /\ call.temperature = BaseTemp(pc) + TempStep * (sweep_calls \div RetriesPerTemp)
           /\ call.temperature <= MaxTemp(pc)
           /\ ended => sweeps_done' = Append(sweeps_done, [stage |-> pc,
                                                           decoded |-> call.out.isdict])
           /\ ended => sweep_calls' = 0
           /\ ~ended => (pc' = pc /\ sweep_calls' = sweep_calls + 1)
           /\ ended <=> \/ call.out.isdict
                        \/ /\ (sweep_calls + 1) % RetriesPerTemp = 0
                           /\ call.temperature + TempStep > MaxTemp(pc)
           /\ (ended /\ pc = "reviewer") => call.out = plan_json'
           /\ (ended /\ pc = "security" /\ call.out.isdict) => call.out = security_report_json'
           /\ (ended /\ pc = "quality" /\ call.out.isdict) => call.out = quality_report_json'

\* C30: in a try_llm_json sweep the first call is made at base_temp and
\* the k-th at base_temp + step * ((k - 1) div retries_per_temp), so the
\* temperature rises by step only after retries_per_temp failed calls at a
\* level; no call is made above max_temp; the first mapping a call gives is
\* handed to the caller and ends the sweep with no further call; a call
\* that gives no mapping is followed by the next call of the sweep unless
\* every level is exhausted, and then the sweep ends with None.
C30_SweepSchedule == [][SweepStep]_vars

\* the reviewer's sweep has made the first call of its last level, at 0.5
C30_Witness ==
    /\ pc = "reviewer"
    /\ last_call # NotReturned
    /\ last_call.stage = "reviewer"
    /\ sweep_calls = 2 * RetriesPerTemp + 1
    /\ last_call.temperature = 5
    /\ try = [t |-> 5, r |-> 1]

\* the highest temperature a sweep of the stage can issue a call at
HighestCallTemp(stage) ==
    BaseTemp(stage) + TempStep * ((MaxTemp(stage) - BaseTemp(stage)) \div TempStep)

\* C31: no planner (reviewer) or composer (reflector) call is issued at a
\* temperature above the highest temperature at which a security, quality or
\* formatter call can be issued.
C31_ActionsCoolerThanCritics ==
    (last_call # NotReturned /\ last_call.stage \in {"reviewer", "reflector"}) =>
        \A critic \in Critics : last_call.temperature <= HighestCallTemp(critic)

(***************************************************************************)
(* The temperature-escalation loops of interpreter (interpret_query.py,    *)
(* lines 231-239) and draft_writer (generate_draft.py, lines 231-238),     *)
(* called with their default arguments as steward.py does.  Temperatures   *)
(* are hundredths here.                                                    *)
(***************************************************************************)
\* oracle calls of one loop that are followed
MaxLoopCalls == 20

\* the defaults of temperature, increment_temperature and max_temperature
StartTemperature(f) == IF f = "interpreter" THEN 5 ELSE 20
IncrementTemperature(f) == IF f = "interpreter" THEN 5 ELSE 10
MaxTemperature(f) == IF f = "interpreter" THEN 85 ELSE 80

\* what llm_infer (get_json_response) can return: a mapping or the raw text
LoopResults ==
    {JDict([questions |-> JList(<<JStr("sub-question")>>)]),
     JDict([questions |-> JList(<<>>)]),
     JStr(Prose(16))}

LoopInit ==
    /\ pc = "temperature_loop"
    /\ fn \in {"interpreter", "draft_writer"}
    /\ current_temperature = StartTemperature(fn)
    /\ call_temperature = 0
    /\ loop_calls = 0
    /\ loop_out = NotReturned
    /\ epsilon \in Epsilons
    /\ open_queue = <<>>
    /\ SearchIdle
    /\ PopIdle
    /\ DecodeIdle
    /\ CallIdle

\* one pass of the loop: its test, which reads the argument temperature,
\* the oracle call, and the break and return on a mapping
LoopCall ==
    /\ pc = "temperature_loop"
    /\ StartTemperature(fn) < MaxTemperature(fn)
    /\ loop_calls < MaxLoopCalls
    /\ \E out \in LoopResults :
          /\ loop_out' = out
          /\ IF out.ty = "dict"
             THEN /\ pc' = "returned"
                  /\ UNCHANGED current_temperature
             ELSE /\ current_temperature' = current_temperature + IncrementTemperature(fn)
                  /\ UNCHANGED pc
    /\ call_temperature' = current_temperature
    /\ loop_calls' = loop_calls + 1
    /\ UNCHANGED <<fn, epsilon, open_queue, searchidle, popvars, decodevars, callvars>>

LoopNext == LoopCall

LoopSpec == LoopInit /\ [][LoopNext]_vars

\* the temperature levels below max_temperature
LevelsBelowMax(f) ==
    (MaxTemperature(f) - 1 - StartTemperature(f)) \div IncrementTemperature(f) + 1

\* C19: the loops of interpreter and draft_writer issue a bounded number of
\* oracle calls (one per temperature level below max_temperature), none of
\* them at a temperature at or above max_temperature, and return even if no
\* call yields a mapping.
C19_LoopsBounded ==
    loop_calls > 0 =>
        /\ call_temperature < MaxTemperature(fn)
        /\ loop_calls <= LevelsBelowMax(fn)
        /\ (loop_calls = LevelsBelowMax(fn) /\ loop_out.ty # "dict") => pc = "returned"
====
